---- MODULE Spec2Model ----
(***************************************************************************)
(* gntools: the size-targeting image compressor                            *)
(* (features/image_compressor.py, compress_image) and the document         *)
(* composer (features/img_to_pdf.py, images_to_pdf).                       *)
(*                                                                         *)
(* The codec (PIL's save) is the environment.  Each encode returns a size  *)
(* chosen from SizeSet(target); the sizes a later step can observe again   *)
(* (quality 95, the encoding of the image that is finally written) are     *)
(* remembered, so the codec is a deterministic function of (image,         *)
(* quality).  No other (image, quality) pair is ever encoded twice by      *)
(* compress_image.  When mono holds the answers are also non-decreasing in *)
(* quality for the full-size image.                                        *)
(***************************************************************************)
EXTENDS Integers, Sequences, FiniteSets, TLC

\* ------------------------------------------------------------------ bounds
MaxTarget == 40
MaxDim == 64
MaxImages == 3
MaxTasks == 2
MaxInputs == 2
MaxSelect == 2
MaxListed == 2

\* ------------------------------------------------------- program constants
StartQuality == 95
MinQuality == 5
MinDimension == 50

NoFile == [kind |-> "none"]

\* ---------------------------------------------------------------- inputs
Targets == {MaxTarget \div 2, MaxTarget}

\* (width, height) of the source image
SourceDims == {<<MinDimension - 10, MaxDim>>, <<MinDimension + 1, MaxDim - 4>>,
               <<MaxDim + 36, MaxDim>>}

\* (format tag, color mode) of the source image, as Image.open reports them
SourceKinds == {<<"PNG", "RGB">>, <<"PNG", "RGBA">>, <<"JPEG", "L">>,
                <<"WEBP", "RGBA">>}

\* sizes the codec can answer for target t: far below, inside the 20% band
\* below, the target itself, one byte above it, the edge of the 20% band
\* above, far above
SizeSet(t) == {t \div 4, t - t \div 10, t, t + 1, t + t \div 5, 2 * t}

VARIABLES
    pc,            \* position in compress_image
    srcFormat, srcMode, srcW, srcH, target,      \* the call's inputs
    img_format,    \* format used for every save
    imgMode,       \* color mode of original_image
    alpha,         \* what happened to the alpha channel
    imgW, imgH,    \* size of original_image (rebound at line 89)
    quality, min_quality, max_quality, output_size,
    width, height,
    mono,          \* the codec's size is non-decreasing in quality
    fitSeen,       \* some probe of the full-size image was <= target
    size95,        \* size of the initial encode
    loSize, hiSize,\* mono: sizes of the nearest probes below / above
    imageSize,     \* size of original_image encoded at quality
    dest,          \* the file at output_path
    ret,           \* "none", "true", "false", "raised"
    iters,         \* iterations of the quality loop
    resizes,       \* resize steps done
    encQ,          \* every quality passed to save
    encModes,      \* every color mode passed to save
    encDims,       \* dimensions of every resized candidate encoded
    path,          \* return path taken: "none", "fast", "final"
    \* ---- images_to_pdf
    ppc,           \* position in images_to_pdf
    image_paths,   \* the input sequence
    bad,           \* the paths Image.open cannot decode
    has_callback,  \* progress_callback is not None
    idx,           \* number of loop iterations done
    images,        \* the decoded images, each named by its path
    temp_path,     \* "unset" until NamedTemporaryFile has returned
    temp_file,     \* the file at temp_path
    out_before,    \* the file at output_path when the call started
    out_file,      \* the file at output_path
    progress,      \* the values passed to progress_callback so far
    presult,       \* "none", "true", "raised"
    error,         \* the error raised: its kind and the path it names
    \* ---- the compression tasks of the GUI (main.py)
    task_pc,       \* position of each task
    task_input,    \* input_path of each task, 0 before it is started
    task_result,   \* what compress_image returned to the task
    task_saved,    \* "none", "copied", "cancelled", "lost"
    temp_files,    \* the file at each temp_output_path, with its creator
    touched,       \* every access to a temp_output_path: task, op, creator
    remove_failed, \* the tasks whose os.remove(temp_output_path) raised
    pdf_image_paths,  \* the list self.pdf_image_paths refers to
    shared,        \* image_paths of the thread is that same list object
    started_paths, \* the list when the creation thread was started
    last_op        \* the last event of the tab: op, a, b

cvars == <<pc, srcFormat, srcMode, srcW, srcH, target, img_format, imgMode,
           alpha, imgW, imgH, quality, min_quality, max_quality, output_size,
           width, height, mono, fitSeen, size95, loSize, hiSize, imageSize,
           dest, ret, iters, resizes, encQ, encModes, encDims, path>>

inputs == <<srcFormat, srcMode, srcW, srcH, target, mono>>
image == <<img_format, imgMode, alpha>>
bounds == <<min_quality, max_quality, loSize, hiSize>>
history == <<iters, resizes, encQ, encModes, encDims>>

pvars == <<ppc, image_paths, bad, has_callback, idx, images, temp_path,
           temp_file, out_before, out_file, progress, presult, error>>

gvars == <<task_pc, task_input, task_result, task_saved, temp_files, touched,
           remove_failed>>

lvars == <<pdf_image_paths, shared, started_paths, last_op>>

vars == <<cvars, pvars, gvars, lvars>>

\* ------------------------------------------------- compress_image helpers

AbsDiff(a, b) == IF a >= b THEN a - b ELSE b - a

\* mutant of WithinConverge: a 2% band
WithinConverge_Narrow(size, t) == 50 * AbsDiff(size, t) < t

\* abs(size - t) < t * 0.05   (line 65)
WithinConverge(size, t) == 20 * AbsDiff(size, t) < t

\* mutant of WithinFinal: abs is missing
WithinFinal_OneSided(size, t) == 5 * (size - t) < t

\* mutant of WithinFinal: <= in place of <
WithinFinal_Inclusive(size, t) == 5 * AbsDiff(size, t) <= t

\* abs(size - t) < t * 0.2    (line 97)
WithinFinal(size, t) == 5 * AbsDiff(size, t) < t

\* mutant of FastPath: < in place of <=
FastPath_Strict(size, t) == size < t

\* output_size <= target_size_bytes (line 53)
FastPath(size, t) == size <= t

\* mutant of Mid: the parentheses are missing
Mid_NoParens(lo, hi) == lo + (hi \div 2)

\* (min_quality + max_quality) // 2 (line 59)
Mid(lo, hi) == (lo + hi) \div 2

\* mutant of NarrowDown: the probed quality stays in the interval
NarrowDown_Keep(q) == q

\* max_quality = quality - 1 (line 69)
NarrowDown(q) == q - 1

\* min_quality = quality + 1 (line 71)
NarrowUp(q) == q + 1

\* mutant of Shrink: rounds up
Shrink_Ceil(d) == (d * 9 + 9) \div 10

\* int(d * 0.9) (lines 80-81)
Shrink(d) == (d * 9) \div 10

\* mutant of Fits: every resized candidate is adopted
Fits_Always(size, t) == size <= t \/ size > t

\* mutant of Fits: < in place of <=
Fits_Strict(size, t) == size < t

\* if output_size <= target_size_bytes (line 88)
Fits(size, t) == size <= t

\* while output_size > target and width > 50 and height > 50 (line 79)
ResizeCond(size, t, w, h) == size > t /\ w > MinDimension /\ h > MinDimension

\* img_format = original_image.format if original_image.format else 'JPEG'
FormatOf(f) == IF f = "NONE" THEN "JPEG" ELSE f

HasAlpha(m) == m \in {"RGBA", "LA"}

\* lines 38-45: what is done to the alpha channel
AlphaHandling(f, m) ==
    IF f = "PNG" /\ m = "RGBA" THEN "white"
    ELSE IF m # "RGB" THEN (IF HasAlpha(m) THEN "dropped" ELSE "converted")
    ELSE "kept"

\* lines 38-45: the mode of original_image afterwards
NormalMode(f, m) ==
    IF f = "PNG" /\ m = "RGBA" THEN "RGB"
    ELSE IF m # "RGB" THEN "RGB"
    ELSE m

\* sizes the codec may answer for the full-size image at quality q
FullSizes(q) ==
    {s \in SizeSet(target) :
        /\ (q = StartQuality /\ size95 # 0) => s = size95
        /\ mono => /\ (size95 # 0 => s <= size95)
                   /\ (loSize # 0 => s >= loSize)
                   /\ (hiSize # 0 => s <= hiSize)}

\* ---------------------------------------------------------------- Init
InitCompress ==
    /\ pc = "start"
    /\ target \in Targets
    /\ \E d \in SourceDims : srcW = d[1] /\ srcH = d[2]
    /\ \E k \in SourceKinds : srcFormat = k[1] /\ srcMode = k[2]
    /\ mono \in BOOLEAN
    /\ fitSeen = FALSE
    /\ img_format = "unset" /\ imgMode = "unset" /\ alpha = "unset"
    /\ imgW = 0 /\ imgH = 0
    /\ quality = 0 /\ min_quality = 0 /\ max_quality = 0 /\ output_size = 0
    /\ width = 0 /\ height = 0
    /\ size95 = 0 /\ loSize = 0 /\ hiSize = 0 /\ imageSize = 0
    /\ dest = NoFile
    /\ ret = "none"
    /\ iters = 0 /\ resizes = 0
    /\ encQ = {} /\ encModes = {} /\ encDims = {}
    /\ path = "none"

\* images_to_pdf is not running
IdlePdf ==
    /\ ppc = "idle"
    /\ image_paths = <<>> /\ bad = {} /\ has_callback = FALSE
    /\ idx = 0 /\ images = <<>>
    /\ temp_path = "unset" /\ temp_file = NoFile
    /\ out_before = NoFile /\ out_file = NoFile
    /\ progress = <<>> /\ presult = "none"
    /\ error = [kind |-> "none", path |-> 0]

\* no compression task of the GUI is running
IdleGui ==
    /\ task_pc = <<>> /\ task_input = <<>> /\ task_result = <<>>
    /\ task_saved = <<>>
    /\ temp_files = <<>>
    /\ touched = {}
    /\ remove_failed = {}

\* the "Image to PDF" tab after its construction: an empty list, no thread
EmptyTab ==
    /\ pdf_image_paths = <<>>
    /\ shared = FALSE
    /\ started_paths = <<>>
    /\ last_op = [op |-> "none", a |-> 0, b |-> 0]

Init == InitCompress /\ IdlePdf /\ IdleGui /\ EmptyTab

\* ------------------------------------------------------------- actions

\* line 24: Image.open fails
OpenFails ==
    /\ pc = "start"
    /\ pc' = "done"
    /\ ret' = "raised"
    /\ UNCHANGED <<inputs, image, bounds, history, imgW, imgH, quality,
                   output_size, width, height, size95, imageSize, dest, path,
                   fitSeen>>
    /\ UNCHANGED <<pvars, gvars, lvars>>

\* lines 24-45: open, pick the format, set the search bounds, normalize
OpenAndNormalize ==
    /\ pc = "start"
    /\ img_format' = FormatOf(srcFormat)
    /\ quality' = StartQuality
    /\ min_quality' = MinQuality
    /\ max_quality' = StartQuality
    /\ alpha' = AlphaHandling(FormatOf(srcFormat), srcMode)
    /\ imgMode' = NormalMode(FormatOf(srcFormat), srcMode)
    /\ imgW' = srcW /\ imgH' = srcH
    /\ pc' = "initial"
    /\ UNCHANGED <<inputs, history, loSize, hiSize, output_size, width,
                   height, size95, imageSize, dest, ret, path, fitSeen>>
    /\ UNCHANGED <<pvars, gvars, lvars>>

\* mutant of Written: the file is saved at the starting quality
Written_AtStartQuality(sz) ==
    [kind |-> "image", q |-> StartQuality, w |-> imgW, h |-> imgH,
     size |-> sz, format |-> img_format, mode |-> imgMode]

\* mutant of Written: nothing is written when the size misses the tolerance
Written_OnlyInTolerance(sz) ==
    IF 5 * AbsDiff(sz, target) < target
      THEN [kind |-> "image", q |-> quality, w |-> imgW, h |-> imgH,
            size |-> sz, format |-> img_format, mode |-> imgMode]
      ELSE NoFile

\* the file that original_image.save(output_path, ...) leaves
Written(sz) == [kind |-> "image", q |-> quality, w |-> imgW, h |-> imgH,
                size |-> sz, format |-> img_format, mode |-> imgMode]

\* lines 47-55: the initial encode and the fast path
InitialEncode ==
    /\ pc = "initial"
    /\ \E s \in FullSizes(quality) :
        /\ output_size' = s
        /\ size95' = s
        /\ imageSize' = s
        /\ fitSeen' = (s <= target)
        /\ IF FastPath(s, target)
             THEN /\ dest' = Written(s)
                  /\ ret' = "true"
                  /\ path' = "fast"
                  /\ pc' = "done"
             ELSE /\ pc' = "search"
                  /\ UNCHANGED <<dest, ret, path>>
    /\ encQ' = encQ \cup {quality}
    /\ encModes' = encModes \cup {imgMode}
    /\ UNCHANGED <<inputs, image, bounds, imgW, imgH, quality, width, height,
                   iters, resizes, encDims>>
    /\ UNCHANGED <<pvars, gvars, lvars>>

\* lines 74-79 after the quality loop: width, height = original_image.size
\* when the buffer is still too large, then the test of the resize loop
AfterSearch(s) ==
    /\ IF s > target
         THEN /\ width' = imgW
              /\ height' = imgH
              /\ pc' = IF ResizeCond(s, target, imgW, imgH)
                         THEN "resize" ELSE "final"
         ELSE /\ pc' = "final"
              /\ UNCHANGED <<width, height>>

\* lines 58-71: one iteration of the quality loop (and, when it is the
\* last one, lines 74-79)
SearchProbe ==
    /\ pc = "search"
    /\ min_quality <= max_quality
    /\ LET q == Mid(min_quality, max_quality) IN
       \E s \in FullSizes(q) :
        /\ quality' = q
        /\ output_size' = s
        /\ imageSize' = s
        /\ fitSeen' = (fitSeen \/ s <= target)
        /\ encQ' = encQ \cup {q}
        /\ IF WithinConverge(s, target)
             THEN /\ UNCHANGED bounds
                  /\ AfterSearch(s)
             ELSE /\ IF s > target
                       THEN /\ max_quality' = NarrowDown(q)
                            /\ hiSize' = IF mono THEN s ELSE hiSize
                            /\ UNCHANGED <<min_quality, loSize>>
                       ELSE /\ min_quality' = NarrowUp(q)
                            /\ loSize' = IF mono THEN s ELSE loSize
                            /\ UNCHANGED <<max_quality, hiSize>>
                  /\ IF min_quality' <= max_quality'
                       THEN /\ pc' = "search"
                            /\ UNCHANGED <<width, height>>
                       ELSE AfterSearch(s)
    /\ iters' = iters + 1
    /\ encModes' = encModes \cup {imgMode}
    /\ UNCHANGED <<inputs, image, imgW, imgH, size95, dest, ret, resizes,
                   encDims, path>>
    /\ UNCHANGED <<pvars, gvars, lvars>>

\* lines 79-90: one iteration of the resize loop
ResizeStep ==
    /\ pc = "resize"
    /\ LET w == Shrink(width)
           h == Shrink(height) IN
       \E s \in SizeSet(target) :
        /\ width' = w
        /\ height' = h
        /\ output_size' = s
        /\ encDims' = encDims \cup {<<w, h>>}
        /\ IF Fits(s, target)
             THEN /\ imgW' = w
                  /\ imgH' = h
                  /\ imageSize' = s
                  /\ pc' = "final"
             ELSE /\ pc' = IF ResizeCond(s, target, w, h)
                             THEN "resize" ELSE "final"
                  /\ UNCHANGED <<imgW, imgH, imageSize>>
    /\ resizes' = resizes + 1
    /\ encQ' = encQ \cup {quality}
    /\ encModes' = encModes \cup {imgMode}
    /\ UNCHANGED <<inputs, image, bounds, quality, size95, dest, ret, iters,
                   path, fitSeen>>
    /\ UNCHANGED <<pvars, gvars, lvars>>

\* lines 92-97: the final write and the verification of the file's size
FinalWrite ==
    /\ pc = "final"
    /\ dest' = Written(imageSize)
    /\ ret' = IF WithinFinal(dest'.size, target) THEN "true" ELSE "false"
    /\ path' = "final"
    /\ pc' = "done"
    /\ encQ' = encQ \cup {quality}
    /\ encModes' = encModes \cup {imgMode}
    /\ UNCHANGED <<inputs, image, bounds, imgW, imgH, quality, output_size,
                   width, height, size95, imageSize, iters, resizes, encDims,
                   fitSeen>>
    /\ UNCHANGED <<pvars, gvars, lvars>>

NextCompress ==
    \/ OpenFails
    \/ OpenAndNormalize
    \/ InitialEncode
    \/ SearchProbe
    \/ ResizeStep
    \/ FinalWrite

Next == NextCompress

Spec == Init /\ [][Next]_vars

\* ----------------------------------------------------------- images_to_pdf

Paths == 1 .. MaxImages

\* every sequence over S of length at most n
RECURSIVE SeqsUpTo(_, _)
SeqsUpTo(S, n) ==
    IF n = 0 THEN {<<>>}
    ELSE LET shorter == SeqsUpTo(S, n - 1) IN
         shorter \cup {Append(q, x) : q \in {r \in shorter : Len(r) = n - 1},
                                      x \in S}

\* a file that is left on the disk before the call
OldFile == [kind |-> "old"]

\* a file whose writing was interrupted
PartialFile == [kind |-> "partial"]

\* the call's inputs and the state of images_to_pdf at its start
StartPdf ==
    /\ ppc = "start"
    /\ image_paths \in SeqsUpTo(Paths, MaxImages)
    /\ bad \in SUBSET Paths
    /\ has_callback \in BOOLEAN
    /\ idx = 0 /\ images = <<>>
    /\ temp_path = "unset" /\ temp_file = NoFile
    /\ out_before \in {NoFile, OldFile}
    /\ out_file = out_before
    /\ progress = <<>> /\ presult = "none"
    /\ error = [kind |-> "none", path |-> 0]

\* compress_image is not running
IdleCompress ==
    /\ pc = "idle"
    /\ target = 0 /\ srcW = 0 /\ srcH = 0
    /\ srcFormat = "unset" /\ srcMode = "unset"
    /\ mono = FALSE /\ fitSeen = FALSE
    /\ img_format = "unset" /\ imgMode = "unset" /\ alpha = "unset"
    /\ imgW = 0 /\ imgH = 0
    /\ quality = 0 /\ min_quality = 0 /\ max_quality = 0 /\ output_size = 0
    /\ width = 0 /\ height = 0
    /\ size95 = 0 /\ loSize = 0 /\ hiSize = 0 /\ imageSize = 0
    /\ dest = NoFile
    /\ ret = "none"
    /\ iters = 0 /\ resizes = 0
    /\ encQ = {} /\ encModes = {} /\ encDims = {}
    /\ path = "none"

InitPdf == StartPdf /\ IdleCompress /\ IdleGui /\ EmptyTab

\* mutant of LoadProgress: the loading phase is scaled to 100
LoadProgress_Full(i, n) == (100 * (i + 1)) \div n

\* int(50 * (i + 1) / len(image_paths)) (line 356)
LoadProgress(i, n) == (50 * (i + 1)) \div n

\* mutant of Pages: append_images starts one image too late
Pages_SkipSecond(imgs) ==
    IF Len(imgs) > 1 THEN <<imgs[1]>> \o SubSeq(imgs, 3, Len(imgs))
    ELSE <<imgs[1]>>

\* lines 373-381: the pages of the document, first_image then append_images
Pages(imgs) ==
    IF Len(imgs) > 1 THEN <<imgs[1]>> \o SubSeq(imgs, 2, Len(imgs))
    ELSE <<imgs[1]>>

\* lines 401-410: the handler removes the temporary file when temp_path is
\* bound and the file exists; a failing os.remove is swallowed
Handler(tp, tf, removed, kind, named) ==
    /\ temp_file' = IF tp = "set" /\ tf # NoFile /\ removed THEN NoFile ELSE tf
    /\ presult' = "raised"
    /\ error' = [kind |-> kind, path |-> named]
    /\ ppc' = "done"

\* mutant of RejectEmpty: progress 0 is reported before the input is tested
RejectEmpty_ReportsFirst ==
    /\ ppc = "start"
    /\ image_paths = <<>>
    /\ progress' = IF has_callback THEN Append(progress, 0) ELSE progress
    /\ Handler(temp_path, temp_file, TRUE, "empty", 0)
    /\ UNCHANGED <<image_paths, bad, has_callback, idx, images, temp_path,
                   out_before, out_file>>
    /\ UNCHANGED <<cvars, gvars, lvars>>

\* lines 339-340: the empty input
RejectEmpty ==
    /\ ppc = "start"
    /\ image_paths = <<>>
    /\ Handler(temp_path, temp_file, TRUE, "empty", 0)
    /\ UNCHANGED <<image_paths, bad, has_callback, idx, images, temp_path,
                   out_before, out_file, progress>>
    /\ UNCHANGED <<cvars, gvars, lvars>>

\* lines 339-343: a non-empty input, images = []
BeginDecode ==
    /\ ppc = "start"
    /\ image_paths # <<>>
    /\ images' = <<>>
    /\ ppc' = "decode"
    /\ UNCHANGED <<image_paths, bad, has_callback, idx, temp_path, temp_file,
                   out_before, out_file, progress, presult, error>>
    /\ UNCHANGED <<cvars, gvars, lvars>>

\* lines 344-357: one image is opened, converted and appended, and the
\* progress is reported
DecodeImage ==
    /\ ppc = "decode"
    /\ idx < Len(image_paths)
    /\ image_paths[idx + 1] \notin bad
    /\ images' = Append(images, image_paths[idx + 1])
    /\ progress' = IF has_callback
                     THEN Append(progress, LoadProgress(idx, Len(image_paths)))
                     ELSE progress
    /\ idx' = idx + 1
    /\ ppc' = IF idx + 1 < Len(image_paths) THEN "decode" ELSE "tempfile"
    /\ UNCHANGED <<image_paths, bad, has_callback, temp_path, temp_file,
                   out_before, out_file, presult, error>>
    /\ UNCHANGED <<cvars, gvars, lvars>>

\* mutant of DecodeFails: the message does not name the file
DecodeFails_Unnamed ==
    /\ ppc = "decode"
    /\ idx < Len(image_paths)
    /\ image_paths[idx + 1] \in bad
    /\ Handler(temp_path, temp_file, TRUE, "decode", 0)
    /\ UNCHANGED <<image_paths, bad, has_callback, idx, images, temp_path,
                   out_before, out_file, progress>>
    /\ UNCHANGED <<cvars, gvars, lvars>>

\* lines 347, 359-360: Image.open fails; the error names the path
DecodeFails ==
    /\ ppc = "decode"
    /\ idx < Len(image_paths)
    /\ image_paths[idx + 1] \in bad
    /\ Handler(temp_path, temp_file, TRUE, "decode", image_paths[idx + 1])
    /\ UNCHANGED <<image_paths, bad, has_callback, idx, images, temp_path,
                   out_before, out_file, progress>>
    /\ UNCHANGED <<cvars, gvars, lvars>>

\* lines 352-360: the image is appended, then progress_callback raises
\* inside the same try block; the error names the path
DecodeCallbackRaises ==
    /\ ppc = "decode"
    /\ idx < Len(image_paths)
    /\ image_paths[idx + 1] \notin bad
    /\ has_callback
    /\ images' = Append(images, image_paths[idx + 1])
    /\ Handler(temp_path, temp_file, TRUE, "callback", image_paths[idx + 1])
    /\ UNCHANGED <<image_paths, bad, has_callback, idx, temp_path,
                   out_before, out_file, progress>>
    /\ UNCHANGED <<cvars, gvars, lvars>>

\* lines 366-370: the temporary file is created
CreateTemp ==
    /\ ppc = "tempfile"
    /\ temp_path' = "set"
    /\ temp_file' = [kind |-> "empty"]
    /\ ppc' = "save"
    /\ UNCHANGED <<image_paths, bad, has_callback, idx, images, out_before,
                   out_file, progress, presult, error>>
    /\ UNCHANGED <<cvars, gvars, lvars>>

\* line 369: NamedTemporaryFile raises, temp_path stays unbound
CreateTempFails ==
    /\ ppc = "tempfile"
    /\ Handler(temp_path, temp_file, TRUE, "tempfile", 0)
    /\ UNCHANGED <<image_paths, bad, has_callback, idx, images, temp_path,
                   out_before, out_file, progress>>
    /\ UNCHANGED <<cvars, gvars, lvars>>

\* mutant of SavePdf: the document is encoded straight to output_path
SavePdf_Direct ==
    /\ ppc = "save"
    /\ out_file' = [kind |-> "pdf", pages |-> Pages(images)]
    /\ ppc' = "report90"
    /\ UNCHANGED <<image_paths, bad, has_callback, idx, images, temp_path,
                   temp_file, out_before, progress, presult, error>>
    /\ UNCHANGED <<cvars, gvars, lvars>>

\* lines 372-381: the document is encoded into the temporary file
SavePdf ==
    /\ ppc = "save"
    /\ temp_file' = [kind |-> "pdf", pages |-> Pages(images)]
    /\ ppc' = "report90"
    /\ UNCHANGED <<image_paths, bad, has_callback, idx, images, temp_path,
                   out_before, out_file, progress, presult, error>>
    /\ UNCHANGED <<cvars, gvars, lvars>>

\* lines 374-381: save raises and leaves a half-written temporary file
SaveFails ==
    /\ ppc = "save"
    /\ \E removed \in BOOLEAN :
         Handler(temp_path, PartialFile, removed, "encode", 0)
    /\ UNCHANGED <<image_paths, bad, has_callback, idx, images, temp_path,
                   out_before, out_file, progress>>
    /\ UNCHANGED <<cvars, gvars, lvars>>

\* lines 383-385: progress 90
Report90 ==
    /\ ppc = "report90"
    /\ progress' = IF has_callback THEN Append(progress, 90) ELSE progress
    /\ ppc' = "move"
    /\ UNCHANGED <<image_paths, bad, has_callback, idx, images, temp_path,
                   temp_file, out_before, out_file, presult, error>>
    /\ UNCHANGED <<cvars, gvars, lvars>>

\* line 385: progress_callback(90) raises
Report90Raises ==
    /\ ppc = "report90"
    /\ has_callback
    /\ \E removed \in BOOLEAN :
         Handler(temp_path, temp_file, removed, "callback", 0)
    /\ UNCHANGED <<image_paths, bad, has_callback, idx, images, temp_path,
                   out_before, out_file, progress>>
    /\ UNCHANGED <<cvars, gvars, lvars>>

\* lines 387-389: shutil.move puts the temporary file at output_path
MoveTemp ==
    /\ ppc = "move"
    /\ out_file' = temp_file
    /\ temp_file' = NoFile
    /\ ppc' = "report100"
    /\ UNCHANGED <<image_paths, bad, has_callback, idx, images, temp_path,
                   out_before, progress, presult, error>>
    /\ UNCHANGED <<cvars, gvars, lvars>>

\* line 389: shutil.move raises, either before it touched output_path or
\* in the middle of the copy it makes when the rename is not possible
MoveFails ==
    /\ ppc = "move"
    /\ out_file' \in {out_file, PartialFile}
    /\ \E removed \in BOOLEAN :
         Handler(temp_path, temp_file, removed, "move", 0)
    /\ UNCHANGED <<image_paths, bad, has_callback, idx, images, temp_path,
                   out_before, progress>>
    /\ UNCHANGED <<cvars, gvars, lvars>>

\* lines 391-399: progress 100, the images are closed, return True
Report100 ==
    /\ ppc = "report100"
    /\ progress' = IF has_callback THEN Append(progress, 100) ELSE progress
    /\ presult' = "true"
    /\ ppc' = "done"
    /\ UNCHANGED <<image_paths, bad, has_callback, idx, images, temp_path,
                   temp_file, out_before, out_file, error>>
    /\ UNCHANGED <<cvars, gvars, lvars>>

\* line 393: progress_callback(100) raises after the move
Report100Raises ==
    /\ ppc = "report100"
    /\ has_callback
    /\ Handler(temp_path, temp_file, TRUE, "callback", 0)
    /\ UNCHANGED <<image_paths, bad, has_callback, idx, images, temp_path,
                   out_before, out_file, progress>>
    /\ UNCHANGED <<cvars, gvars, lvars>>

NextPdf ==
    \/ RejectEmpty
    \/ BeginDecode
    \/ DecodeImage
    \/ DecodeFails
    \/ DecodeCallbackRaises
    \/ CreateTemp
    \/ CreateTempFails
    \/ SavePdf
    \/ SaveFails
    \/ Report90
    \/ Report90Raises
    \/ MoveTemp
    \/ MoveFails
    \/ Report100
    \/ Report100Raises

SpecPdf == InitPdf /\ [][NextPdf]_vars

\* ------------------------------------- the GUI's compression tasks (main.py)

Tasks == 1 .. MaxTasks

InputFiles == 1 .. MaxInputs

\* lines 126-128: temp_output_path is dirname(input_path) joined with
\* "temp_" + name + "_compressed" + ext: the input path decides it, and two
\* input paths give two names
TempName(input) == input

StartGui ==
    /\ task_pc = [t \in Tasks |-> "idle"]
    /\ task_input = [t \in Tasks |-> 0]
    /\ task_result = [t \in Tasks |-> "none"]
    /\ task_saved = [t \in Tasks |-> "none"]
    /\ temp_files = [n \in InputFiles |-> NoFile]
    /\ touched = {}
    /\ remove_failed = {}

InitGui == StartGui /\ IdleCompress /\ IdlePdf /\ EmptyTab

\* the accesses an operation of task t on the name n adds to the record
Touch(t, n, op) ==
    IF temp_files[n] = NoFile THEN touched
    ELSE touched \cup {[task |-> t, op |-> op, creator |-> temp_files[n].creator]}

\* a save to the name n by task t: the file is created, or an existing
\* file is truncated and rewritten
WriteTemp(t, n) ==
    IF temp_files[n] = NoFile THEN [kind |-> "image", creator |-> t]
    ELSE temp_files[n]

\* lines 104-140: "Compress Image" is pressed with a valid target and an
\* existing input; the worker thread is started
CompressImageTask(t, i) ==
    /\ task_pc[t] = "idle"
    /\ \A u \in Tasks : u < t => task_pc[u] # "idle"
    /\ task_input' = [task_input EXCEPT ![t] = i]
    /\ task_pc' = [task_pc EXCEPT ![t] = "running"]
    /\ UNCHANGED <<task_result, task_saved, temp_files, touched, remove_failed>>
    /\ UNCHANGED <<cvars, pvars, lvars>>

\* lines 142-150: compress_image writes temp_output_path and returns; the
\* completion is scheduled on the main thread
RunCompression(t, r) ==
    /\ task_pc[t] = "running"
    /\ LET n == TempName(task_input[t]) IN
        /\ touched' = Touch(t, n, "write")
        /\ temp_files' = [temp_files EXCEPT ![n] = WriteTemp(t, n)]
    /\ task_result' = [task_result EXCEPT ![t] = r]
    /\ task_pc' = [task_pc EXCEPT ![t] = "scheduled"]
    /\ UNCHANGED <<task_input, task_saved, remove_failed>>
    /\ UNCHANGED <<cvars, pvars, lvars>>

\* lines 155-159 and 206-211: if os.path.exists: os.remove, inside a try
\* whose handler swallows (or prints) the error; removed tells whether
\* os.remove succeeded on the file f at the name n
RemoveTemp(t, n, f, removed) ==
    /\ temp_files' = [temp_files EXCEPT ![n] = IF removed THEN NoFile ELSE f]
    /\ remove_failed' = IF f # NoFile /\ ~removed
                          THEN remove_failed \cup {t} ELSE remove_failed

\* lines 151-159: compress_image raises while it writes; the worker
\* schedules the error report and removes temp_output_path when it exists
RunCompressionRaises(t) ==
    /\ task_pc[t] = "running"
    /\ LET n == TempName(task_input[t]) IN
        /\ touched' = Touch(t, n, "write") \cup Touch(t, n, "delete")
        /\ \E removed \in BOOLEAN : RemoveTemp(t, n, WriteTemp(t, n), removed)
    /\ task_result' = [task_result EXCEPT ![t] = "raised"]
    /\ task_pc' = [task_pc EXCEPT ![t] = "done"]
    /\ UNCHANGED <<task_input, task_saved>>
    /\ UNCHANGED <<cvars, pvars, lvars>>

\* lines 161-184: _compression_done with success: the size of the file is
\* read and the save dialog opens; when the file is gone getsize raises
\* and the finally block runs
CompressionDoneSuccess(t) ==
    /\ task_pc[t] = "scheduled"
    /\ task_result[t] = "true"
    /\ LET n == TempName(task_input[t]) IN
        IF temp_files[n] = NoFile
          THEN /\ task_saved' = [task_saved EXCEPT ![t] = "lost"]
               /\ task_pc' = [task_pc EXCEPT ![t] = "done"]
               /\ UNCHANGED <<temp_files, touched>>
          ELSE /\ touched' = Touch(t, n, "getsize")
               /\ task_pc' = [task_pc EXCEPT ![t] = "dialog"]
               /\ UNCHANGED <<temp_files, task_saved>>
    /\ UNCHANGED <<task_input, task_result, remove_failed>>
    /\ UNCHANGED <<cvars, pvars, lvars>>

\* lines 186-196, 205-211: a path is chosen in the save dialog, the file is
\* copied there, and the finally block removes temp_output_path
SaveChosen(t) ==
    /\ task_pc[t] = "dialog"
    /\ LET n == TempName(task_input[t]) IN
        IF temp_files[n] = NoFile
          THEN /\ task_saved' = [task_saved EXCEPT ![t] = "lost"]
               /\ UNCHANGED <<temp_files, touched, remove_failed>>
          ELSE /\ task_saved' = [task_saved EXCEPT ![t] = "copied"]
               /\ touched' = Touch(t, n, "copy") \cup Touch(t, n, "delete")
               /\ \E removed \in BOOLEAN :
                    RemoveTemp(t, n, temp_files[n], removed)
    /\ task_pc' = [task_pc EXCEPT ![t] = "done"]
    /\ UNCHANGED <<task_input, task_result>>
    /\ UNCHANGED <<cvars, pvars, lvars>>

\* mutant of SaveCancelled: the cancelled dialog returns before the cleanup
SaveCancelled_KeepsTemp(t) ==
    /\ task_pc[t] = "dialog"
    /\ task_saved' = [task_saved EXCEPT ![t] = "cancelled"]
    /\ task_pc' = [task_pc EXCEPT ![t] = "done"]
    /\ UNCHANGED <<task_input, task_result, temp_files, touched, remove_failed>>
    /\ UNCHANGED <<cvars, pvars, lvars>>

\* lines 197-198, 205-211: the save dialog is cancelled
SaveCancelled(t) ==
    /\ task_pc[t] = "dialog"
    /\ LET n == TempName(task_input[t]) IN
        /\ touched' = Touch(t, n, "delete")
        /\ \E removed \in BOOLEAN : RemoveTemp(t, n, temp_files[n], removed)
    /\ task_saved' = [task_saved EXCEPT ![t] = "cancelled"]
    /\ task_pc' = [task_pc EXCEPT ![t] = "done"]
    /\ UNCHANGED <<task_input, task_result>>
    /\ UNCHANGED <<cvars, pvars, lvars>>

\* lines 199-211: _compression_done without success: the warning is shown
\* and the finally block removes temp_output_path
CompressionDoneFailure(t) ==
    /\ task_pc[t] = "scheduled"
    /\ task_result[t] = "false"
    /\ LET n == TempName(task_input[t]) IN
        /\ touched' = Touch(t, n, "delete")
        /\ \E removed \in BOOLEAN : RemoveTemp(t, n, temp_files[n], removed)
    /\ task_pc' = [task_pc EXCEPT ![t] = "done"]
    /\ UNCHANGED <<task_input, task_result, task_saved>>
    /\ UNCHANGED <<cvars, pvars, lvars>>

NextGui ==
    \/ \E t \in Tasks, i \in InputFiles : CompressImageTask(t, i)
    \/ \E t \in Tasks, r \in {"true", "false"} : RunCompression(t, r)
    \/ \E t \in Tasks : RunCompressionRaises(t)
    \/ \E t \in Tasks : CompressionDoneSuccess(t)
    \/ \E t \in Tasks : SaveChosen(t)
    \/ \E t \in Tasks : SaveCancelled(t)
    \/ \E t \in Tasks : CompressionDoneFailure(t)

SpecGui == InitGui /\ [][NextGui]_vars

\* --------------------------- the "Image to PDF" tab (features/img_to_pdf.py)

\* the image files the user can pick
TabPaths == 1 .. MaxListed

\* what the file dialog of "Add Images" can return
Selections == SeqsUpTo(TabPaths, MaxSelect)

InitTab == EmptyTab /\ IdleCompress /\ IdlePdf /\ IdleGui

Range(list) == {list[k] : k \in 1 .. Len(list)}

\* lines 170-172: for filepath in filenames: append it when it is not in
\* the list yet
RECURSIVE AppendNew(_, _)
AppendNew(list, filenames) ==
    IF filenames = <<>> THEN list
    ELSE AppendNew(IF Head(filenames) \in Range(list) THEN list
                   ELSE Append(list, Head(filenames)),
                   Tail(filenames))

\* del list[i] and list.pop(i) for a Python index 0 <= i < len(list)
DelAt(list, i) == SubSeq(list, 1, i) \o SubSeq(list, i + 2, Len(list))

\* list.insert(i, x) for a Python index 0 <= i <= len(list)
InsertAt(list, i, x) ==
    SubSeq(list, 1, i) \o <<x>> \o SubSeq(list, i + 1, Len(list))

\* the widget every DraggableImageItem gets as its parent (lines 193-194)
ItemParent == "images_container"

\* hasattr(widget, "reorder_images"): the method is defined by
\* ImageToPdfFeature (line 222), and a ttk.Frame has no such attribute
HasReorderImages(widget) == widget = "ImageToPdfFeature"

\* lines 224-234: the squared distance between the centre of the dropped
\* widget and the centre of item i.  The dropped widget is item orig itself,
\* at distance 0; near is the other item it was dropped on, at distance 0
\* when the two centres coincide (exact), and every other item is farther
DropDist(orig, near, exact, i) ==
    IF i = orig THEN 0
    ELSE IF i = near THEN (IF exact THEN 0 ELSE 1)
    ELSE 2

\* lines 227-238: the first item at the least distance (dist < min_dist),
\* -1 for no item
ClosestIdx(orig, near, exact, n) ==
    IF n = 0 THEN 0 - 1
    ELSE CHOOSE i \in 0 .. n - 1 :
           /\ \A j \in 0 .. n - 1 :
                DropDist(orig, near, exact, i) <= DropDist(orig, near, exact, j)
           /\ \A j \in 0 .. i - 1 :
                DropDist(orig, near, exact, j) > DropDist(orig, near, exact, i)

\* lines 247-257: pop(orig_idx) and insert(closest_idx, img_path)
ReorderImages(list, orig_idx, closest_idx) ==
    IF orig_idx # 0 - 1 /\ closest_idx # 0 - 1 /\ orig_idx # closest_idx
      THEN InsertAt(DelAt(list, orig_idx), closest_idx, list[orig_idx + 1])
      ELSE list

\* an in-place change of the list self.pdf_image_paths refers to: a thread
\* that was handed the same list object sees it
MutateList(new) ==
    /\ pdf_image_paths' = new
    /\ image_paths' = IF shared THEN new ELSE image_paths
    /\ UNCHANGED <<shared, started_paths>>
    /\ UNCHANGED <<ppc, bad, has_callback, idx, images, temp_path, temp_file,
                   out_before, out_file, progress, presult, error>>
    /\ UNCHANGED <<cvars, gvars>>

\* lines 162-176: "Add Images"
BrowsePdfImages(filenames) ==
    /\ MutateList(AppendNew(pdf_image_paths, filenames))
    /\ last_op' = [op |-> "add", a |-> 0, b |-> 0]

\* lines 205-206, 216-220: a double click on a thumbnail calls
\* remove_image(index)
RemoveImage(index) ==
    /\ MutateList(IF 0 <= index /\ index < Len(pdf_image_paths)
                    THEN DelAt(pdf_image_paths, index)
                    ELSE pdf_image_paths)
    /\ last_op' = [op |-> "remove", a |-> index, b |-> 0]

\* lines 73-81: the thumbnail at index orig is released on the thumbnail at
\* index near; on_release calls reorder_images only when the parent widget
\* has that attribute
OnRelease(orig, near, exact) ==
    /\ orig \in 0 .. Len(pdf_image_paths) - 1
    /\ near \in 0 .. Len(pdf_image_paths) - 1
    /\ near # orig
    /\ MutateList(IF HasReorderImages(ItemParent)
                    THEN ReorderImages(pdf_image_paths, orig,
                                       ClosestIdx(orig, near, exact,
                                                  Len(pdf_image_paths)))
                    ELSE pdf_image_paths)
    /\ last_op' = [op |-> "drop", a |-> orig, b |-> near]

\* lines 259-262: "Clear All" binds the attribute to a new empty list
ClearPdfImages ==
    /\ pdf_image_paths' = <<>>
    /\ shared' = FALSE
    /\ last_op' = [op |-> "clear", a |-> 0, b |-> 0]
    /\ UNCHANGED <<started_paths, pvars>>
    /\ UNCHANGED <<cvars, gvars>>

\* lines 264-299: "Create PDF" with a non-empty list and a chosen output
\* path: the thread is started with the list object itself
CreatePdfTask(undecodable, before) ==
    /\ ppc = "idle"
    /\ pdf_image_paths # <<>>
    /\ image_paths' = pdf_image_paths
    /\ shared' = TRUE
    /\ started_paths' = pdf_image_paths
    /\ last_op' = [op |-> "create", a |-> 0, b |-> 0]
    /\ ppc' = "start"
    /\ bad' = undecodable
    /\ has_callback' = TRUE
    /\ idx' = 0 /\ images' = <<>>
    /\ temp_path' = "unset" /\ temp_file' = NoFile
    /\ out_before' = before /\ out_file' = before
    /\ progress' = <<>> /\ presult' = "none"
    /\ error' = [kind |-> "none", path |-> 0]
    /\ UNCHANGED pdf_image_paths
    /\ UNCHANGED <<cvars, gvars>>

\* lines 344, 362-363: the iteration over image_paths finds no further
\* element because the list was shortened meanwhile
DecodeLoopEnds ==
    /\ ppc = "decode"
    /\ idx >= Len(image_paths)
    /\ IF images = <<>>
         THEN /\ Handler(temp_path, temp_file, TRUE, "novalid", 0)
              /\ UNCHANGED <<image_paths, bad, has_callback, idx, images,
                             temp_path, out_before, out_file, progress>>
         ELSE /\ ppc' = "tempfile"
              /\ UNCHANGED <<image_paths, bad, has_callback, idx, images,
                             temp_path, temp_file, out_before, out_file,
                             progress, presult, error>>
    /\ UNCHANGED <<cvars, gvars, lvars>>

NextTab ==
    \/ \E filenames \in Selections : BrowsePdfImages(filenames)
    \/ \E index \in (0 - 1) .. MaxListed : RemoveImage(index)
    \/ \E orig, near \in 0 .. MaxListed - 1, exact \in BOOLEAN :
         OnRelease(orig, near, exact)
    \/ ClearPdfImages
    \/ \E undecodable \in SUBSET TabPaths, before \in {NoFile, OldFile} :
         CreatePdfTask(undecodable, before)
    \/ RejectEmpty
    \/ BeginDecode
    \/ DecodeImage
    \/ DecodeFails
    \/ DecodeCallbackRaises
    \/ DecodeLoopEnds
    \/ CreateTemp
    \/ CreateTempFails
    \/ SavePdf
    \/ SaveFails
    \/ Report90
    \/ Report90Raises
    \/ MoveTemp
    \/ MoveFails
    \/ Report100
    \/ Report100Raises

SpecTab == InitTab /\ [][NextTab]_vars

\* ------------------------------------------------------------ properties

Returned == pc = "done" /\ ret \in {"true", "false"}

\* C1 (as stated): every call of compress_image that returns True, by
\* whichever return path, leaves a file whose size is within 20% of the
\* target: |finalFileSize - targetBytes| < 0.20 * targetBytes.
C1_AnySuccessWithinTolerance ==
    (pc = "done" /\ ret = "true") => 5 * AbsDiff(dest.size, target) < target

\* C1 (amended): a True returned by the final verification leaves a file
\* with |finalFileSize - targetBytes| < 0.20 * targetBytes; a True returned
\* by the fast path leaves a file with finalFileSize <= targetBytes.
C1_SuccessByPath ==
    (pc = "done" /\ ret = "true") =>
        IF path = "final" THEN 5 * AbsDiff(dest.size, target) < target
        ELSE path = "fast" /\ dest.size <= target

C1_Witness ==
    /\ pc = "done" /\ ret = "true" /\ path = "final"
    /\ dest.size > target /\ resizes = 0

\* C2: with a codec whose size is non-decreasing in quality, when some
\* quality in [5,95] encodes the full-size image to at most the target, no
\* resize is performed and the written file has the source's dimensions.
C2_NoResizeWhenQualitySuffices ==
    (Returned /\ mono /\ fitSeen) =>
        (resizes = 0 /\ dest.w = srcW /\ dest.h = srcH)

\* C3: for a source of at least 50x50, every resized candidate that is
\* encoded and the image finally written are at least 50 wide and 50 high.
C3_NeverBelowFloor ==
    (srcW >= 50 /\ srcH >= 50) =>
        /\ \A d \in encDims : d[1] >= 50 /\ d[2] >= 50
        /\ dest # NoFile => (dest.w >= 50 /\ dest.h >= 50)

\* C4: the quality loop runs at most 7 iterations, and every iteration
\* that does not hit the 5% convergence check strictly shrinks the interval:
\* a size above the target sets max_quality to quality - 1, any other size
\* sets min_quality to quality + 1.
C4_SearchBounded ==
    /\ [](iters <= 7)
    /\ [][(iters' = iters + 1 /\ ~(20 * AbsDiff(output_size', target) < target))
            => /\ IF output_size' > target
                    THEN /\ max_quality' = quality' - 1
                         /\ min_quality' = min_quality
                    ELSE /\ min_quality' = quality' + 1
                         /\ max_quality' = max_quality
               /\ max_quality' - min_quality' < max_quality - min_quality]_vars

C4_Witness == iters = 7 /\ pc = "done"

\* C5: when the initial encode at quality 95 is at most the target, the
\* call has written exactly that full-size quality-95 encoding and returned
\* True, with no iteration of the quality loop and no resize step.
C5_FastPath ==
    (size95 # 0 /\ size95 <= target) =>
        /\ pc = "done" /\ ret = "true"
        /\ iters = 0 /\ resizes = 0 /\ encQ = {95}
        /\ dest = [kind |-> "image", q |-> 95, w |-> srcW, h |-> srcH,
                   size |-> size95, format |-> img_format, mode |-> imgMode]

C5_Witness == pc = "done" /\ path = "fast" /\ dest.size = size95

\* C6: whenever compress_image returns without an I/O error a file is at
\* the destination; a search that never reaches the 20% tolerance still
\* writes the file and returns False.
C6_AlwaysWrites ==
    (pc = "done" /\ ret # "raised") =>
        /\ dest # NoFile /\ dest.kind = "image"
        /\ ret \in {"true", "false"}
        /\ (path = "final" /\ ~(5 * AbsDiff(dest.size, target) < target))
              => ret = "false"

C6_Witness ==
    /\ pc = "done" /\ ret = "false" /\ dest # NoFile
    /\ resizes > 0 /\ dest.size > target

\* C7: every quality passed to the encoder is an integer in [5, 95], and
\* once the bounds are set 5 <= min_quality and max_quality <= 95.
C7_QualityRange ==
    /\ encQ \subseteq 5 .. 95
    /\ img_format # "unset" => (5 <= min_quality /\ max_quality <= 95)

C7_Witness == pc = "done" /\ max_quality = 4 /\ 5 \in encQ /\ 95 \in encQ

\* C8: an image carrying an alpha channel, whatever its format, is
\* flattened onto an opaque white background before any encode, any other
\* non-RGB mode is converted, and every encode operates on an RGB image.
C8_AlphaFlattenedOnWhite ==
    alpha # "unset" =>
        /\ HasAlpha(srcMode) => alpha = "white"
        /\ (~HasAlpha(srcMode) /\ srcMode # "RGB") => alpha = "converted"
        /\ encModes \subseteq {"RGB"}

\* C9: when images_to_pdf succeeds on n paths the document at the
\* destination has exactly n pages and page k derives from the k-th path.
C9_PageOrder ==
    (ppc = "done" /\ presult = "true") =>
        /\ out_file.kind = "pdf"
        /\ Len(out_file.pages) = Len(image_paths)
        /\ \A k \in 1 .. Len(image_paths) : out_file.pages[k] = image_paths[k]

C9_Witness ==
    /\ ppc = "done" /\ presult = "true"
    /\ Len(image_paths) = 3
    /\ image_paths[1] # image_paths[2] /\ image_paths[2] # image_paths[3]

\* C10: whenever images_to_pdf fails, at whatever step, the destination
\* path does not exist or is unchanged from before the call.
C10_FailureLeavesDestination ==
    (ppc = "done" /\ presult = "raised") => out_file = out_before

\* C11: after every call of images_to_pdf, successful or failed, no
\* temporary file created by the call remains on the disk.
C11_NoTempFileLeft ==
    ppc = "done" => temp_file = NoFile

C14_ProgressMonotone ==
    /\ \A k \in 1 .. Len(progress) : progress[k] \in 0 .. 100
    /\ \A k \in 1 .. Len(progress) - 1 : progress[k] <= progress[k + 1]
    /\ (ppc = "done" /\ presult = "true" /\ has_callback)
          => (progress # <<>> /\ progress[Len(progress)] = 100)

C14_Witness ==
    /\ ppc = "done" /\ presult = "true" /\ has_callback
    /\ Len(image_paths) = 3 /\ Len(progress) = 5

\* C16: on every return through the final write the result is True if and
\* only if the size of the written file satisfies
\* |finalSize - target| < 0.20 * target; a final size above the target by
\* less than 20% reports success.
C16_FinalVerdict ==
    (pc = "done" /\ path = "final") =>
        /\ ret \in {"true", "false"}
        /\ ret = "true" <=> 5 * AbsDiff(dest.size, target) < target

C16_Witness ==
    /\ pc = "done" /\ path = "final" /\ ret = "true"
    /\ dest.size > target /\ resizes > 0

\* C17: the first resized candidate whose encoded size is <= target is
\* adopted and the resize loop stops at once: no further candidate is
\* encoded, and the final write uses exactly that candidate.
C17_FirstFitAdopted ==
    /\ []((resizes > 0 /\ output_size <= target) =>
            /\ pc \in {"final", "done"}
            /\ imgW = width /\ imgH = height /\ imageSize = output_size
            /\ \A d \in encDims : d[1] >= width /\ d[2] >= height
            /\ pc = "done" => /\ dest.w = width /\ dest.h = height
                              /\ dest.size = output_size)
    /\ [][(resizes > 0 /\ output_size <= target) =>
            (resizes' = resizes /\ encDims' = encDims /\ width' = width
             /\ height' = height /\ output_size' = output_size)]_vars

C17_Witness ==
    /\ pc = "done" /\ resizes = 2 /\ output_size <= target
    /\ dest.w = width /\ dest.w < srcW

\* C18: the quality loop stops at the first probe whose size is within 5%
\* of the target, without changing either bound, and that probe's quality
\* is used by every later encode and by the final write.
C18_ConvergenceStops ==
    /\ [][(iters' = iters + 1 /\ 20 * AbsDiff(output_size', target) < target)
            => /\ min_quality' = min_quality /\ max_quality' = max_quality
               /\ pc' \in {"resize", "final"}
               /\ quality' = (min_quality + max_quality) \div 2]_vars
    /\ []((iters > 0 /\ pc \in {"resize", "final", "done"}
             /\ min_quality <= max_quality)
            => /\ quality = (min_quality + max_quality) \div 2
               /\ pc = "done" => dest.q = quality)
    /\ [][(pc \in {"resize", "final"}) => encQ' = encQ \cup {quality'}]_vars

C18_Witness ==
    /\ pc = "done" /\ iters = 3 /\ min_quality <= max_quality
    /\ resizes > 0 /\ dest.q = quality

\* C19: the dimension reduction leaves the quality alone: every resized
\* candidate and the final write are encoded at the quality of the last
\* probe, and min_quality and max_quality do not change after the loop.
C19_ResizeKeepsQuality ==
    /\ [][(pc \in {"resize", "final"}) =>
            /\ quality' = quality
            /\ min_quality' = min_quality /\ max_quality' = max_quality
            /\ encQ' = encQ \cup {quality}]_vars
    /\ []((pc = "done" /\ path = "final") => dest.q = quality)

C19_Witness ==
    /\ pc = "done" /\ resizes >= 2 /\ iters = 7
    /\ dest.q = quality /\ quality # 95

\* C20: the resize loop terminates: every step replaces width and height
\* by floor(0.9 * width) and floor(0.9 * height), both strictly smaller,
\* and the loop goes on exactly while the candidate is above the target and
\* both dimensions are above 50.
C20_ResizeTerminates ==
    /\ [][(resizes' = resizes + 1) =>
            /\ width' = (9 * width) \div 10 /\ height' = (9 * height) \div 10
            /\ width' < width /\ height' < height
            /\ pc' = "resize" <=>
                 (output_size' > target /\ width' > 50 /\ height' > 50)
            /\ pc' \in {"resize", "final"}]_vars
    /\ [](pc = "resize" => (output_size > target /\ width > 50 /\ height > 50))
    /\ [](width # 0 => resizes <= srcW - width)

C20_Witness == pc = "done" /\ resizes = 3 /\ output_size > target

\* C15: concurrent tasks share no temporary file: no task writes, reads
\* the size of, copies or deletes a temporary file another task created.
C15_NoSharedTempFile ==
    \A e \in touched : e.task = e.creator

\* C21: images_to_pdf keeps a fixed order of steps: the temporary file is
\* created only when every input is decoded, progress 90 is reported only
\* when the temporary file holds the whole document, the destination is
\* written only by the move that follows progress 90, and progress 100 is
\* reported only when the destination holds the complete document.
C21_FixedOrder ==
    /\ [][(temp_path' # temp_path) =>
            /\ idx = Len(image_paths) /\ images = image_paths
            /\ progress = [k \in 1 .. Len(progress) |->
                             LoadProgress(k - 1, Len(image_paths))]]_vars
    /\ [][(progress' # progress /\ progress'[Len(progress')] = 90) =>
            /\ temp_file = [kind |-> "pdf", pages |-> image_paths]
            /\ out_file = out_before]_vars
    /\ [][(out_file' # out_file) =>
            /\ ppc = "move"
            /\ out_file = out_before
            /\ temp_file = [kind |-> "pdf", pages |-> image_paths]
            /\ has_callback => (progress # <<>> /\ progress[Len(progress)] = 90)
            /\ out_file' \in {temp_file, PartialFile}]_vars
    /\ [][(progress' # progress /\ progress'[Len(progress')] = 100) =>
            /\ out_file = [kind |-> "pdf", pages |-> image_paths]
            /\ temp_file = NoFile
            /\ progress[Len(progress)] = 90]_vars

C21_Witness ==
    /\ ppc = "done" /\ presult = "true" /\ has_callback
    /\ out_before = OldFile
    /\ image_paths = <<2, 1>>
    /\ progress = <<25, 50, 90, 100>>
    /\ out_file = [kind |-> "pdf", pages |-> <<2, 1>>]

\* C22: when the resize loop ends and no resized candidate fitted the
\* target, the file written is the unresized source at the quality of the
\* last probe: it has the source's dimensions and the size of the full-size
\* encode at that quality, which is above the target, whatever the size of
\* the smallest candidate was.
C22_NoFitWritesSource ==
    (pc = "done" /\ path = "final" /\ resizes > 0 /\ output_size > target) =>
        /\ dest.w = srcW /\ dest.h = srcH
        /\ imgW = srcW /\ imgH = srcH
        /\ dest.q = quality
        /\ dest.size = imageSize
        /\ dest.size > target

C22_Witness ==
    /\ pc = "done" /\ path = "final" /\ resizes = 3
    /\ output_size > target /\ dest.size # output_size
    /\ dest.w = srcW /\ width < srcW

C23_PageOrderAtStart ==
    (ppc = "done" /\ presult = "true" /\ started_paths # <<>>) =>
        out_file = [kind |-> "pdf", pages |-> started_paths]

\* C24: the path list never holds a path twice; a drag moves the dragged
\* item from its index to the index of the item it was dropped on and keeps
\* the other items in their order; a remove deletes exactly the element at
\* a valid index and nothing at an index out of range; add appends, clear
\* empties.
C24_ListOperations ==
    /\ [](\A j, k \in 1 .. Len(pdf_image_paths) :
            pdf_image_paths[j] = pdf_image_paths[k] => j = k)
    /\ [][(last_op' # last_op \/ pdf_image_paths' # pdf_image_paths) =>
           LET old == pdf_image_paths
               new == pdf_image_paths'
               a == last_op'.a
               b == last_op'.b
               Without(list, k) ==
                   [m \in 1 .. Len(list) - 1 |->
                      IF m < k THEN list[m] ELSE list[m + 1]]
           IN  /\ last_op'.op = "drop" =>
                    /\ Len(new) = Len(old)
                    /\ {new[k] : k \in 1 .. Len(new)}
                         = {old[k] : k \in 1 .. Len(old)}
                    /\ new[b + 1] = old[a + 1]
                    /\ Without(new, b + 1) = Without(old, a + 1)
               /\ last_op'.op = "remove" =>
                    new = IF a \in 0 .. Len(old) - 1
                            THEN Without(old, a + 1) ELSE old
               /\ last_op'.op = "add" =>
                    /\ Len(new) >= Len(old)
                    /\ SubSeq(new, 1, Len(old)) = old
               /\ last_op'.op = "clear" => new = <<>>
               /\ last_op'.op \in {"create", "none"} => new = old]_vars

====
